---- MODULE Spec2Model ----
(***************************************************************************)
(* Model of pptx2md/types.py: the pydantic models ConversionConfig,         *)
(* TextStyle, TextRun, Position, the eight element classes, Slide and       *)
(* ParsedPresentation.                                                      *)
(*                                                                          *)
(* A keyword call f(k=v, ...) is modelled by a record kw whose DOMAIN is    *)
(* the set of keyword names the caller supplied; a field the caller left    *)
(* out is not in DOMAIN kw.  Optional[T] values are <<>> (None) or <<v>>.   *)
(* Objects shared by reference (the custom_titles dict) live in a heap.     *)
(***************************************************************************)
EXTENDS Integers, Sequences, FiniteSets, TLC

VARIABLES
    pydantic_major,  \* major version of the installed pydantic (1 or 2)
    configs,         \* the ConversionConfig objects that exist, in creation order
    given,           \* history: the keyword arguments each config was built from
    heap,            \* dict objects; heap[DefaultRef] is the class-level default
    writes,          \* number of mutations performed so far
    last_call,       \* the last call made: [op, kw, raised]
    pending,         \* the caller's list of elements built for the next Slide
    slides,          \* the caller's list of Slide objects built so far
    presentation,    \* <<>> or <<p>>: the ParsedPresentation, once constructed
    original         \* history: the presentation as it was at construction

vars == <<pydantic_major, configs, given, heap, writes, last_call,
          pending, slides, presentation, original>>

configVars == <<pydantic_major, configs, given, heap>>
irVars == <<pending, slides, presentation, original>>

---------------------------------------------------------------------------
(* Bounds of the model *)

MaxConfigs == 2
MaxWrites == 2
MaxElements == 2
MaxSlides == 2

---------------------------------------------------------------------------
(* Python values *)

None == <<>>
Some(v) == <<v>>

Arg(kw, name, default) == IF name \in DOMAIN kw THEN kw[name] ELSE default

EmptyDict == [k \in {} |-> 0]

\* d[key] = value on a Python dict
DictSetItem(d, key, value) ==
    [k \in DOMAIN d \cup {key} |-> IF k = key THEN value ELSE d[k]]

---------------------------------------------------------------------------
(* class ConversionConfig(BaseModel) *)

DefaultRef == 1

\* A field annotated without "= default" is required.  pydantic 1 gives an
\* Optional[...] annotation an implicit default of None; pydantic 2 does not.
RequiredConfigFields ==
    IF pydantic_major = 1
    THEN {"pptx_path", "output_path"}
    ELSE {"pptx_path", "output_path", "image_dir", "title_path"}

\* The instance's custom_titles when the caller supplies none: pydantic copies
\* a mutable field default for every instance.
ShareDefault(h) == [ref |-> DefaultRef, heap |-> h]
CopyDefault(h) == [ref |-> Len(h) + 1, heap |-> Append(h, h[DefaultRef])]

\* Validation of a supplied custom_titles builds a new dict from the input.
CustomTitles(kw, h) ==
    IF "custom_titles" \in DOMAIN kw
    THEN [ref |-> Len(h) + 1, heap |-> Append(h, kw.custom_titles)]
    ELSE CopyDefault(h)

\* ConversionConfig(kw): the declared fields with their defaults.  There is
\* no validator: any well-typed combination of values is accepted.
ConversionConfig(kw, ref) ==
    [pptx_path        |-> kw.pptx_path,
     output_path      |-> kw.output_path,
     image_dir        |-> Arg(kw, "image_dir", None),
     title_path       |-> Arg(kw, "title_path", None),
     image_width      |-> Arg(kw, "image_width", None),
     disable_image    |-> Arg(kw, "disable_image", FALSE),
     disable_wmf      |-> Arg(kw, "disable_wmf", FALSE),
     disable_color    |-> Arg(kw, "disable_color", FALSE),
     disable_escaping |-> Arg(kw, "disable_escaping", FALSE),
     disable_notes    |-> Arg(kw, "disable_notes", FALSE),
     enable_slides    |-> Arg(kw, "enable_slides", FALSE),
     is_wiki          |-> Arg(kw, "is_wiki", FALSE),
     is_mdk           |-> Arg(kw, "is_mdk", FALSE),
     is_qmd           |-> Arg(kw, "is_qmd", FALSE),
     min_block_size   |-> Arg(kw, "min_block_size", 15),
     page             |-> Arg(kw, "page", None),
     custom_titles    |-> ref]

ConfigRaises(kw) == ~(RequiredConfigFields \subseteq DOMAIN kw)

\* cfg = ConversionConfig(kw)
Construct(kw) ==
    /\ Len(configs) < MaxConfigs
    /\ IF ConfigRaises(kw)
       THEN /\ last_call' = [op |-> "ConversionConfig", kw |-> kw, raised |-> TRUE]
            /\ UNCHANGED <<configs, given, heap>>
       ELSE LET ct == CustomTitles(kw, heap) IN
            /\ configs' = Append(configs, ConversionConfig(kw, ct.ref))
            /\ given' = Append(given, kw)
            /\ heap' = ct.heap
            /\ last_call' = [op |-> "ConversionConfig", kw |-> kw, raised |-> FALSE]
    /\ UNCHANGED <<pydantic_major, writes, irVars>>

\* cfg.<name> = value.  BaseModel is not frozen and does not validate
\* assignments: the attribute is simply rebound.
SetAttr(c, name, value) ==
    /\ writes < MaxWrites
    /\ c \in DOMAIN configs
    /\ configs' = [configs EXCEPT ![c] = [f \in DOMAIN @ |-> IF f = name THEN value ELSE @[f]]]
    /\ writes' = writes + 1
    /\ last_call' = [op |-> "__setattr__", kw |-> [name |-> name], raised |-> FALSE]
    /\ UNCHANGED <<pydantic_major, given, heap, irVars>>

\* cfg.custom_titles[key] = level: a store into the dict the field refers to.
SetCustomTitle(c, key, level) ==
    /\ writes < MaxWrites
    /\ c \in DOMAIN configs
    /\ heap' = [heap EXCEPT ![configs[c].custom_titles] = DictSetItem(@, key, level)]
    /\ writes' = writes + 1
    /\ last_call' = [op |-> "__setitem__", kw |-> [name |-> key], raised |-> FALSE]
    /\ UNCHANGED <<pydantic_major, configs, given, irVars>>

---------------------------------------------------------------------------
(* class ElementType(str, Enum) *)

ElementType ==
    {"title", "list_item", "paragraph", "image", "table", "note",
     "column_start", "column_end"}

NoArgs == <<>>

(* class TextStyle(BaseModel) *)
TextStyle(kw) ==
    [is_accent |-> Arg(kw, "is_accent", FALSE),
     is_strong |-> Arg(kw, "is_strong", FALSE),
     color_rgb |-> Arg(kw, "color_rgb", None),
     hyperlink |-> Arg(kw, "hyperlink", None)]

(* class TextRun(BaseModel): text is any str, the empty string included *)
TextRun(kw) == [text |-> kw.text, style |-> kw.style]

(* class Position(BaseModel) *)
Position(kw) ==
    [left |-> kw.left, top |-> kw.top, width |-> kw.width, height |-> kw.height]

(* class BaseElement(BaseModel): the fields every element inherits.  In a    *)
(* subclass "type" is an ordinary field with a default, so a caller may      *)
(* pass any member of ElementType.                                           *)
BaseElement(cls, default_type, kw) ==
    [cls      |-> cls,
     type     |-> Arg(kw, "type", default_type),
     position |-> Arg(kw, "position", None),
     style    |-> Arg(kw, "style", None)]

TitleElement(kw) ==
    BaseElement("TitleElement", "title", kw)
        @@ [content |-> kw.content, level |-> kw.level]

ListItemElement(kw) ==
    BaseElement("ListItemElement", "list_item", kw)
        @@ [content |-> kw.content, level |-> Arg(kw, "level", 1)]

ParagraphElement(kw) ==
    BaseElement("ParagraphElement", "paragraph", kw) @@ [content |-> kw.content]

ImageElement(kw) ==
    BaseElement("ImageElement", "image", kw)
        @@ [path         |-> kw.path,
            width        |-> Arg(kw, "width", None),
            original_ext |-> Arg(kw, "original_ext", ""),
            alt_text     |-> Arg(kw, "alt_text", "")]

TableElement(kw) ==
    BaseElement("TableElement", "table", kw) @@ [content |-> kw.content]

NoteElement(kw) ==
    BaseElement("NoteElement", "note", kw) @@ [content |-> kw.content]

ColumnStartElement(kw) ==
    BaseElement("ColumnStartElement", "column_start", kw) @@ [width |-> kw.width]

ColumnEndElement(kw) ==
    BaseElement("ColumnEndElement", "column_end", kw)

\* SlideElement = Union[...]: the eight classes a Slide accepts
SlideElement ==
    {"TitleElement", "ListItemElement", "ParagraphElement", "ImageElement",
     "TableElement", "NoteElement", "ColumnStartElement", "ColumnEndElement"}

\* the fields of each class that have no default
RequiredElementFields(cls) ==
    CASE cls = "TitleElement"       -> {"content", "level"}
      [] cls = "ListItemElement"    -> {"content"}
      [] cls = "ParagraphElement"   -> {"content"}
      [] cls = "ImageElement"       -> {"path"}
      [] cls = "TableElement"       -> {"content"}
      [] cls = "NoteElement"        -> {"content"}
      [] cls = "ColumnStartElement" -> {"width"}
      [] cls = "ColumnEndElement"   -> {}

\* pydantic's validation of a well-typed call: required fields are present
\* and "type", when given, is a member of the enum.
ElementRaises(cls, kw) ==
    \/ ~(RequiredElementFields(cls) \subseteq DOMAIN kw)
    \/ ("type" \in DOMAIN kw /\ kw.type \notin ElementType)

NewObject(cls, kw) ==
    CASE cls = "TitleElement"       -> TitleElement(kw)
      [] cls = "ListItemElement"    -> ListItemElement(kw)
      [] cls = "ParagraphElement"   -> ParagraphElement(kw)
      [] cls = "ImageElement"       -> ImageElement(kw)
      [] cls = "TableElement"       -> TableElement(kw)
      [] cls = "NoteElement"        -> NoteElement(kw)
      [] cls = "ColumnStartElement" -> ColumnStartElement(kw)
      [] cls = "ColumnEndElement"   -> ColumnEndElement(kw)

(* class Slide(BaseModel): elements is any list of SlideElement *)
Slide(kw) == [elements |-> kw.elements, notes |-> kw.notes]

SlideRaises(kw) ==
    \/ ~({"elements", "notes"} \subseteq DOMAIN kw)
    \/ \E i \in DOMAIN kw.elements : kw.elements[i].cls \notin SlideElement

(* class ParsedPresentation(BaseModel) *)
ParsedPresentation(kw) == [slides |-> kw.slides]

RECURSIVE SumLen(_)
SumLen(ss) == IF ss = <<>> THEN 0 ELSE Len(Head(ss).elements) + SumLen(Tail(ss))

\* e = Cls(kw); elements.append(e)
NewElement(cls, kw) ==
    /\ presentation = None
    /\ Len(pending) + SumLen(slides) < MaxElements
    /\ IF ElementRaises(cls, kw)
       THEN /\ last_call' = [op |-> cls, kw |-> kw, raised |-> TRUE]
            /\ UNCHANGED pending
       ELSE /\ pending' = Append(pending, NewObject(cls, kw))
            /\ last_call' = [op |-> cls, kw |-> kw, raised |-> FALSE]
    /\ UNCHANGED <<configVars, writes, slides, presentation, original>>

\* slides.append(Slide(elements=elements, notes=notes)); elements = []
NewSlide(notes) ==
    /\ presentation = None
    /\ Len(slides) < MaxSlides
    /\ LET kw == [elements |-> pending, notes |-> notes] IN
       IF SlideRaises(kw)
       THEN /\ last_call' = [op |-> "Slide", kw |-> kw, raised |-> TRUE]
            /\ UNCHANGED <<pending, slides>>
       ELSE /\ slides' = Append(slides, Slide(kw))
            /\ pending' = <<>>
            /\ last_call' = [op |-> "Slide", kw |-> kw, raised |-> FALSE]
    /\ UNCHANGED <<configVars, writes, presentation, original>>

\* ParsedPresentation(slides=slides)
NewPresentation ==
    /\ presentation = None
    /\ pending = <<>>
    /\ LET kw == [slides |-> slides] IN
       /\ presentation' = Some(ParsedPresentation(kw))
       /\ original' = Some(ParsedPresentation(kw))
       /\ last_call' = [op |-> "ParsedPresentation", kw |-> NoArgs, raised |-> FALSE]
    /\ UNCHANGED <<configVars, writes, pending, slides>>

Mutate(p, what) ==
    /\ writes < MaxWrites
    /\ presentation # None
    /\ presentation' = Some(p)
    /\ writes' = writes + 1
    /\ last_call' = [op |-> what, kw |-> NoArgs, raised |-> FALSE]
    /\ UNCHANGED <<configVars, pending, slides, original>>

\* presentation.slides = new
SetSlides(new) ==
    /\ presentation # None
    /\ Mutate([presentation[1] EXCEPT !.slides = new], "slides =")

\* presentation.slides.append(s)
AppendSlide(s) ==
    /\ presentation # None
    /\ Mutate([presentation[1] EXCEPT !.slides = Append(@, s)], "slides.append")

\* del presentation.slides[-1]
RemoveSlide ==
    /\ presentation # None
    /\ presentation[1].slides # <<>>
    /\ Mutate([presentation[1] EXCEPT !.slides = SubSeq(@, 1, Len(@) - 1)], "del slides[-1]")

\* presentation.slides[i] = s
ReplaceSlide(i, s) ==
    /\ presentation # None
    /\ i \in DOMAIN presentation[1].slides
    /\ Mutate([presentation[1] EXCEPT !.slides[i] = s], "slides[i] =")

\* presentation.slides[i].elements = es
SetElements(i, es) ==
    /\ presentation # None
    /\ i \in DOMAIN presentation[1].slides
    /\ Mutate([presentation[1] EXCEPT !.slides[i].elements = es], "elements =")

\* presentation.slides[i].notes = ns
SetNotes(i, ns) ==
    /\ presentation # None
    /\ i \in DOMAIN presentation[1].slides
    /\ Mutate([presentation[1] EXCEPT !.slides[i].notes = ns], "notes =")

\* presentation.slides[i].elements[j].<name> = value, for a field the
\* element's class declares
SetElementField(i, j, name, value) ==
    /\ presentation # None
    /\ i \in DOMAIN presentation[1].slides
    /\ j \in DOMAIN presentation[1].slides[i].elements
    /\ name \in DOMAIN presentation[1].slides[i].elements[j]
    /\ Mutate([presentation[1] EXCEPT !.slides[i].elements[j] =
                  [f \in DOMAIN @ |-> IF f = name THEN value ELSE @[f]]],
              "element field =")

---------------------------------------------------------------------------
(* Inputs *)

\* keyword sets for a single configuration
ConfigKwargs ==
    LET base == {[output_path |-> "out.md"],
                 [pptx_path |-> "deck.pptx", output_path |-> "out.md"],
                 [pptx_path |-> "deck.pptx", output_path |-> "out.md",
                  image_dir |-> Some("img"), title_path |-> None],
                 [pptx_path |-> "deck.pptx", output_path |-> "out.md",
                  image_dir |-> None, title_path |-> Some("titles.txt")]}
        flags == UNION {[S -> BOOLEAN] : S \in SUBSET {"is_wiki", "is_mdk", "is_qmd"}}
    IN  {b @@ f : b \in base, f \in flags}

Titles == {"Intro", "Agenda"}
Levels == {1, 2}

\* keyword sets of independent conversion runs
RunKwargs ==
    LET base == [pptx_path |-> "deck.pptx", output_path |-> "out.md",
                 image_dir |-> Some("img"), title_path |-> None]
    IN  {base, base @@ [custom_titles |-> DictSetItem(EmptyDict, "Intro", 2)]}

Assignments ==
    ({"is_wiki", "is_mdk", "is_qmd", "enable_slides"} \X BOOLEAN)
        \cup ({"image_dir"} \X {None, Some("other")})
        \cup ({"min_block_size"} \X {0})


RunA == TextRun([text |-> "a", style |-> TextStyle(NoArgs)])
RunEmpty == TextRun([text |-> "", style |-> TextStyle(NoArgs)])
CellA == <<RunA>>

\* constructor calls a caller of the module can make
ElementCalls ==
    {<<"TitleElement", [content |-> "Intro", level |-> 1]>>,
     <<"TitleElement", [content |-> "Intro", level |-> 0]>>,
     <<"TitleElement", [content |-> "Intro"]>>,
     <<"TitleElement", [type |-> "note", content |-> "Intro", level |-> 2]>>,
     <<"TitleElement", [type |-> "heading", content |-> "Intro", level |-> 2]>>,
     <<"ListItemElement", [content |-> <<RunA>>]>>,
     <<"ListItemElement", [content |-> <<RunA>>, level |-> -1]>>,
     <<"ParagraphElement", [content |-> <<RunA>>]>>,
     <<"ParagraphElement", [content |-> <<RunEmpty>>]>>,
     <<"ImageElement", [path |-> "img/1.png"]>>,
     <<"TableElement", [content |-> <<<<CellA, CellA>>, <<CellA, CellA>>>>]>>,
     <<"TableElement", [content |-> <<<<CellA, CellA>>, <<CellA>>>>]>>,
     <<"NoteElement", [content |-> <<RunA>>]>>,
     <<"ColumnStartElement", [width |-> "50%"]>>,
     <<"ColumnEndElement", NoArgs>>}

NoteLists == {<<>>, <<"speak slowly">>}

ElementAssignments ==
    {<<"type", "column_end">>,
     <<"position", Some(Position([left |-> 0, top |-> 0, width |-> 1, height |-> 1]))>>}

OtherSlide == Slide([elements |-> <<ColumnEndElement(NoArgs)>>, notes |-> <<>>])

---------------------------------------------------------------------------
(* Specifications *)

InitConfig ==
    /\ pydantic_major \in {1, 2}
    /\ configs = <<>>
    /\ given = <<>>
    /\ heap = <<EmptyDict>>
    /\ writes = 0
    /\ last_call = [op |-> "import", kw |-> [name |-> "pptx2md.types"], raised |-> FALSE]
    /\ pending = <<>>
    /\ slides = <<>>
    /\ presentation = <<>>
    /\ original = <<>>

\* one configuration, constructed and then assigned to
NextConfig ==
    \/ \E kw \in ConfigKwargs : Len(configs) < 1 /\ Construct(kw)
    \/ \E c \in DOMAIN configs, a \in Assignments : SetAttr(c, a[1], a[2])

SpecConfig == InitConfig /\ [][NextConfig]_vars

\* several runs, each with its own configuration
NextRuns ==
    \/ \E kw \in RunKwargs : Construct(kw)
    \/ \E c \in DOMAIN configs, k \in Titles, l \in Levels : SetCustomTitle(c, k, l)

SpecRuns == InitConfig /\ [][NextRuns]_vars

\* the parser's use of the IR classes, then writes to the finished object
NextIR ==
    \/ \E call \in ElementCalls : NewElement(call[1], call[2])
    \/ \E ns \in NoteLists : NewSlide(ns)
    \/ NewPresentation
    \/ SetSlides(<<>>)
    \/ AppendSlide(OtherSlide)
    \/ RemoveSlide
    \/ \E i \in 1..MaxSlides : ReplaceSlide(i, OtherSlide)
    \/ \E i \in 1..MaxSlides : SetElements(i, <<>>)
    \/ \E i \in 1..MaxSlides : SetNotes(i, <<"edited">>)
    \/ \E i \in 1..MaxSlides, j \in 1..MaxElements, a \in ElementAssignments :
          SetElementField(i, j, a[1], a[2])

InitIR == InitConfig

SpecIR == InitIR /\ [][NextIR]_vars

---------------------------------------------------------------------------
(* Properties *)

DialectSelectors == {"is_wiki", "is_mdk", "is_qmd"}

\* C1: the dialect selectors are mutually exclusive: no accepted constructor
\* call sets more than one of is_wiki, is_mdk, is_qmd, and every config that
\* exists has at most one of them set.
C1_DialectSelectorsExclusive ==
    /\ \A c \in DOMAIN given :
          Cardinality({f \in DialectSelectors \cap DOMAIN given[c] : given[c][f]}) <= 1
    /\ \A c \in DOMAIN configs :
          Cardinality({f \in DialectSelectors : configs[c][f]}) <= 1

\* C2: a config is not mutated after creation: every field of every config
\* holds the value it was given at construction.
C2_ConfigNotMutated ==
    \A c \in DOMAIN configs :
        configs[c] = ConversionConfig(given[c], configs[c].custom_titles)

\* the elements of the Slide objects that have been constructed
SlideElements ==
    UNION {{slides[i].elements[j] : j \in DOMAIN slides[i].elements} : i \in DOMAIN slides}

\* every element object that has been constructed
Constructed == SlideElements \cup {pending[j] : j \in DOMAIN pending}

RECURSIVE ColumnScan(_, _)
\* scanning es with d column regions open: the count stays 0 or 1, ends at 0
ColumnScan(es, d) ==
    IF es = <<>> THEN d = 0
    ELSE LET nd == CASE Head(es).cls = "ColumnStartElement" -> d + 1
                     [] Head(es).cls = "ColumnEndElement"   -> d - 1
                     [] OTHER                               -> d
         IN  nd \in {0, 1} /\ ColumnScan(Tail(es), nd)

\* C3: in every constructed Slide the ColumnStart/ColumnEnd markers are
\* balanced and not nested.
C3_ColumnsBalanced ==
    \A i \in DOMAIN slides : ColumnScan(slides[i].elements, 0)

\* C4: every constructed TitleElement and ListItemElement has level >= 1, and
\* a ListItemElement constructed without a level has level 1.
C4_LevelAtLeastOne ==
    /\ \A e \in Constructed :
          e.cls \in {"TitleElement", "ListItemElement"} => e.level >= 1
    /\ (last_call.op = "ListItemElement" /\ "level" \notin DOMAIN last_call.kw)
          => (~last_call.raised /\ pending[Len(pending)].level = 1)

\* C5: a ParsedPresentation is immutable: its slides, their elements and
\* every element field are what they were at construction.
C5_PresentationImmutable ==
    presentation # None => presentation = original

TagOf(cls) ==
    CASE cls = "TitleElement"       -> "title"
      [] cls = "ListItemElement"    -> "list_item"
      [] cls = "ParagraphElement"   -> "paragraph"
      [] cls = "ImageElement"       -> "image"
      [] cls = "TableElement"       -> "table"
      [] cls = "NoteElement"        -> "note"
      [] cls = "ColumnStartElement" -> "column_start"
      [] cls = "ColumnEndElement"   -> "column_end"

\* C6: the type tag discriminates the variant: every constructed element
\* carries one of the eight tags, and it is the tag of its own class.
C6_TagDiscriminates ==
    \A e \in Constructed : e.type \in ElementType /\ e.type = TagOf(e.cls)

\* C7: every constructed TableElement is rectangular: all rows of its grid
\* have the same number of cells.
C7_TableRectangular ==
    \A e \in Constructed :
        e.cls = "TableElement" =>
            \A r1, r2 \in DOMAIN e.content : Len(e.content[r1]) = Len(e.content[r2])

\* the TextRuns in the content of an element of a Slide
RunsOf(e) ==
    CASE e.cls \in {"ListItemElement", "ParagraphElement", "NoteElement"} ->
            {e.content[k] : k \in DOMAIN e.content}
      [] e.cls = "TableElement" ->
            UNION {UNION {{e.content[r][c][k] : k \in DOMAIN e.content[r][c]} :
                             c \in DOMAIN e.content[r]} : r \in DOMAIN e.content}
      [] OTHER -> {}

\* C8: no TextRun with empty text occurs in the content of a ListItemElement,
\* ParagraphElement, NoteElement or TableElement cell of a constructed Slide.
C8_NoEmptyRun ==
    \A e \in SlideElements : \A r \in RunsOf(e) : r.text # ""

\* C9: a config constructed from pptx_path and output_path alone is accepted
\* and has image_dir and title_path None, every toggle false, min_block_size
\* 15, page and image_width None and custom_titles empty.
C9_OptionalPathsDefault ==
    (last_call.op = "ConversionConfig"
        /\ DOMAIN last_call.kw = {"pptx_path", "output_path"})
    => /\ ~last_call.raised
       /\ LET cfg == configs[Len(configs)] IN
          /\ cfg.image_dir = None /\ cfg.title_path = None
          /\ \A f \in {"disable_image", "disable_wmf", "disable_color",
                       "disable_escaping", "disable_notes", "enable_slides",
                       "is_wiki", "is_mdk", "is_qmd"} : cfg[f] = FALSE
          /\ cfg.min_block_size = 15
          /\ cfg.page = None /\ cfg.image_width = None
          /\ heap[cfg.custom_titles] = EmptyDict

\* C10: configs constructed without custom_titles share no dict: a step that
\* changes the custom_titles of one leaves the custom_titles of every other
\* and the class default unchanged, and a config constructed without
\* custom_titles starts with an empty mapping.
C10_NoSharedCustomTitles ==
    [][/\ \A c, d \in DOMAIN configs :
             (/\ c # d
              /\ "custom_titles" \notin DOMAIN given[c]
              /\ "custom_titles" \notin DOMAIN given[d]
              /\ heap'[configs'[c].custom_titles] # heap[configs[c].custom_titles])
             => heap'[configs'[d].custom_titles] = heap[configs[d].custom_titles]
       /\ heap'[DefaultRef] = heap[DefaultRef]
       /\ \A c \in DOMAIN configs' \ DOMAIN configs :
             "custom_titles" \notin DOMAIN given'[c]
             => heap'[configs'[c].custom_titles] = EmptyDict
      ]_vars

\* two configs constructed without custom_titles, one written to and the
\* other still empty
C10_Witness ==
    \E c, d \in DOMAIN configs :
        /\ c # d
        /\ "custom_titles" \notin DOMAIN given[c]
        /\ "custom_titles" \notin DOMAIN given[d]
        /\ heap[configs[c].custom_titles] # EmptyDict
        /\ heap[configs[d].custom_titles] = EmptyDict

====
